---- MODULE Spec2Model ----
(***************************************************************************)
(* BloomNet Kernel (backend/main.py): the topology reconciliation engine.  *)
(* Three stores are modelled: the ledger (Neo4j graph of MinIONode and     *)
(* MinIOCluster with MEMBER_OF edges), the two Prometheus file-SD target   *)
(* files, and the mc alias registry, which the engine never stores and     *)
(* re-reads on every operation (an input of the operations that list it).  *)
(*                                                                         *)
(* Strings that the code parses or builds are sequences of tokens, so that *)
(* split/strip/format are computed and not assumed:                        *)
(*   "http://10.0.0.1:9000" is <<"http","://","10.0.0.1",":","9000">>.     *)
(***************************************************************************)
EXTENDS Integers, Sequences, FiniteSets, TLC

\* ------------------------------------------------------------ bounds
\* Largest value of the ledger clock timestamp() the model explores.
MaxTime == 1

\* ------------------------------------------------------------ strings
SP == " "
COMMA == ","
COLON == ":"
SCHEME == "://"

IP1 == <<"10.0.0.1">>
IP2 == <<"10.0.0.2">>
IPs == {IP1, IP2}

NodeNames == {"n1", "n2"}

\* str.split(sep): the pieces between separators; "" splits to [""].
RECURSIVE Split(_, _)
Split(s, sep) ==
    IF s = <<>> THEN << <<>> >>
    ELSE IF Head(s) = sep THEN << <<>> >> \o Split(Tail(s), sep)
    ELSE LET r == Split(Tail(s), sep)
         IN  << <<Head(s)>> \o Head(r) >> \o Tail(r)

RECURSIVE LStrip(_)
LStrip(s) == IF s # <<>> /\ Head(s) = SP THEN LStrip(Tail(s)) ELSE s

RECURSIVE RStrip(_)
RStrip(s) ==
    IF s # <<>> /\ s[Len(s)] = SP THEN RStrip(SubSeq(s, 1, Len(s) - 1)) ELSE s

\* str.strip()
Strip(s) == RStrip(LStrip(s))

RECURSIVE MapStrip(_)
MapStrip(ss) ==
    IF ss = <<>> THEN <<>> ELSE <<Strip(Head(ss))>> \o MapStrip(Tail(ss))

NonEmpty(x) == x # <<>>

\* alias_list = [a.strip() for a in aliases.split(',') if a.strip()]
ParseAliases(aliases) == SelectSeq(MapStrip(Split(aliases, COMMA)), NonEmpty)

\* ip_part = url.split("://")[-1].split(":")[0]
HostOf(url) ==
    LET parts == Split(url, SCHEME)
    IN  Split(parts[Len(parts)], COLON)[1]

\* f"{ip}:{port}"
HostPort(ip, port) == ip \o <<COLON, port>>

\* f"http://{ip}:{port}"
HttpUrl(ip, port) == <<"http", SCHEME>> \o HostPort(ip, port)

Range(s) == {s[i] : i \in DOMAIN s}

\* ------------------------------------------------------------ target files
\* A JSON item of a target file.  labels: "dict" (a labels object, alias may
\* be missing from it), "absent" (no labels key) or "scalar" (labels is not an
\* object); kind "scalar" is an item that is not an object at all.
NoAlias == "<none>"
NoTargets == <<>>

TargetEntry(alias, targets) ==
    [kind |-> "dict", labels |-> "dict", alias |-> alias, targets |-> targets]

\* new_target = None
NoTarget ==
    [kind |-> "none", labels |-> "absent", alias |-> NoAlias, targets |-> NoTargets]

\* A foreign entry without labels, one whose labels carry no alias, and two
\* items on which t.get('labels', {}).get('alias') raises AttributeError.
ForeignNoLabels ==
    [kind |-> "dict", labels |-> "absent", alias |-> NoAlias,
     targets |-> <<HostPort(<<"10.9.9.9">>, "9999")>>]
ForeignOther ==
    [kind |-> "dict", labels |-> "dict", alias |-> "legacy",
     targets |-> <<HostPort(<<"10.9.9.9">>, "9001")>>]
BadLabels ==
    [kind |-> "dict", labels |-> "scalar", alias |-> NoAlias, targets |-> NoTargets]
ScalarItem ==
    [kind |-> "scalar", labels |-> "absent", alias |-> NoAlias, targets |-> NoTargets]

\* t.get('labels', {}).get('alias')
AliasLabel(t) == IF t.labels = "dict" THEN t.alias ELSE NoAlias
GetRaises(t) == t.kind # "dict" \/ t.labels = "scalar"

MissingFile == [kind |-> "missing", data |-> <<>>]
MalformedFile == [kind |-> "malformed", data |-> <<>>]
NotListFile == [kind |-> "notlist", data |-> <<>>]
ListFile(data) == [kind |-> "list", data |-> data]

\* lines 33-40: a missing file, a JSONDecodeError and a non-list all read as []
ReadTargets(file) == IF file.kind = "list" THEN file.data ELSE <<>>

\* Variant: the new entry is appended without the filter of line 43.
DropAlias_Nothing(data, alias) == data

\* Variant: the filter reads t['labels']['alias'] and loses unlabelled entries.
DropAlias_LabelledOnly(data, alias) ==
    SelectSeq(data, LAMBDA t : t.labels = "dict" /\ t.alias # alias)

\* line 43: data = [t for t in data if t.get('labels', {}).get('alias') != alias]
DropAlias(data, alias) == SelectSeq(data, LAMBDA t : AliasLabel(t) # alias)

\* update_target_file(filepath, alias, new_target); io = FALSE is an OSError
\* from open(); any exception leaves the file as it was (lines 50-51).
update_target_file(file, alias, new_target, io) ==
    LET data == ReadTargets(file)
        kept == DropAlias(data, alias)
        out  == IF new_target # NoTarget THEN Append(kept, new_target) ELSE kept
    IN  IF ~io \/ (\E i \in DOMAIN data : GetRaises(data[i]))
        THEN file
        ELSE ListFile(out)

\* lines 207-210 and 214-217
minio_target(name, ip) ==
    TargetEntry(name, <<HostPort(ip, "9001"), HostPort(ip, "9003")>>)
node_target(name, ip, node_port) == TargetEntry(name, <<HostPort(ip, node_port)>>)

\* ------------------------------------------------------------ health prober
\* What requests.get gives: an HTTP status, or -1 for an exception (timeout,
\* connection refused).
ProbeOutcomes == {200, 503, -1}

\* check_minio_health: True only for status 200; an exception is False
check_minio_health(outcome) == outcome = 200

\* Variant: a node with both instances down is refused.
ProbeAborts_BothDown(is_a_alive, is_b_alive) == ~(is_a_alive \/ is_b_alive)

\* lines 191-192: with both instances down the code prints a warning and goes on
ProbeAborts(is_a_alive, is_b_alive) == FALSE

\* Variant: one live instance is enough for "active" (the test of line 191).
NodeStatus_Either(is_a_alive, is_b_alive) ==
    IF is_a_alive \/ is_b_alive THEN "active" ELSE "degraded"

\* line 198
NodeStatus(is_a_alive, is_b_alive) ==
    IF is_a_alive /\ is_b_alive THEN "active" ELSE "degraded"

\* ------------------------------------------------------------ ledger
NodeIds(ns) == {n.id : n \in ns}
FreshId(ns) == CHOOSE i \in 1..(Cardinality(ns) + 1) :
                  /\ i \notin NodeIds(ns)
                  /\ \A j \in 1..(i - 1) : j \in NodeIds(ns)

\* Variant: the MERGE keyed by name instead of ip.
MergeNode_ByName(ns, name, ip, status) ==
    IF \E n \in ns : n.name = name
    THEN {IF n.name = name
          THEN [n EXCEPT !.ip = ip, !.status = status]
          ELSE n : n \in ns}
    ELSE ns \cup {[id |-> FreshId(ns), name |-> name, ip |-> ip, status |-> status]}

\* MERGE (n:MinIONode {ip: $ip}) SET n.name = $name, n.status = $status
\* (n.last_seen, which nothing reads, is not kept)
MergeNode(ns, name, ip, status) ==
    IF \E n \in ns : n.ip = ip
    THEN {IF n.ip = ip
          THEN [n EXCEPT !.name = name, !.status = status]
          ELSE n : n \in ns}
    ELSE ns \cup {[id |-> FreshId(ns), name |-> name, ip |-> ip, status |-> status]}

\* MATCH (n:MinIONode {name: $name}) DETACH DELETE n RETURN count(n)
NodesNamed(ns, name) == {n \in ns : n.name = name}
DeleteNodes(ns, name) == ns \ NodesNamed(ns, name)
\* Variant: the count is not looked at.
NoneDeleted_Never(gone) == FALSE

\* line 167: result.single()["deleted_count"] == 0
NoneDeleted(gone) == Cardinality(gone) = 0

\* Variant: DELETE without DETACH semantics, the edges of the node stay.
DetachNodes_Keep(es, ids) == es

\* DETACH DELETE: the edges of the deleted nodes go with them
DetachNodes(es, ids) == [e \in {x \in DOMAIN es : x[1] \notin ids} |-> es[e]]

\* ------------------------------------------------------------ state
VARIABLES
    nodes,          \* ledger: set of MinIONode records [id, name, ip, status]
    clusters,       \* ledger: set of MinIOCluster records [name, created_at]
    edges,          \* ledger: MEMBER_OF edges, <<node id, cluster name>> -> multiplicity
    targets_minio,  \* contents of targets_minio.json
    targets_node,   \* contents of targets_node.json
    now,            \* the ledger clock read by timestamp()
    last,           \* the last operation: its arguments and its HTTP response
    calls,          \* the external calls the last operation made, in order
    writers,        \* update_target_file calls running in the worker threads
    inflight        \* a request whose external calls are followed one by one

vars == <<nodes, clusters, edges, targets_minio, targets_node, now, last, calls,
          writers, inflight>>

NoEdges == [e \in {} |-> 0]
NoMap == [x \in {} |-> <<>>]

\* The registry was not listed.
NotListed == [rc |-> -1, lines |-> <<>>]

\* An operation's arguments and response; fault is the ledger failure that was
\* injected into it ("none": every ledger step could be performed).
NoOp ==
    [op |-> "none", name |-> "", ip |-> <<>>, port |-> "", code |-> 0,
     a |-> FALSE, b |-> FALSE, status |-> "", raw |-> <<>>, members |-> <<>>,
     stderr |-> <<>>,
     listing |-> NotListed, resolved |-> NoMap, member_count |-> 0, logs |-> <<>>,
     fault |-> "none"]

Call(cmd, arg, rc) == [cmd |-> cmd, arg |-> arg, rc |-> rc]

\* The worker threads in which the sync endpoints run (FastAPI's thread pool).
Writers == {1, 2}

\* A call of update_target_file: where it stands, its arguments, its local data
NoWriter == [pc |-> "idle", alias |-> NoAlias, new_target |-> NoTarget, data |-> <<>>]
NoWriters == [w \in Writers |-> NoWriter]

\* A request: the external calls it still has to make, whether it is blocked
\* in one, and what the calls made so far returned.
NoFlight == [op |-> "none", todo |-> <<>>, waiting |-> FALSE, results |-> <<>>]

\* At start-up targets_minio.json holds an entry some other tool wrote and
\* targets_node.json does not exist yet.

Init ==
    /\ nodes = {}
    /\ clusters = {}
    /\ edges = NoEdges
    /\ targets_minio = ListFile(<<ForeignOther>>)
    /\ targets_node = MissingFile
    /\ now = 0
    /\ last = NoOp
    /\ calls = <<>>
    /\ writers = NoWriters
    /\ inflight = NoFlight

\* timestamp() advances between operations.
Tick ==
    /\ now < MaxTime
    /\ now' = now + 1
    /\ UNCHANGED <<nodes, clusters, edges, targets_minio, targets_node, last, calls,
                   writers, inflight>>

\* ------------------------------------------------------------ node operations
Ports == {"9100"}
LedgerFaults == {"none", "connect", "query"}
\* The orchestrated operations are explored with working file I/O; SpecFeed
\* below explores update_target_file with failing I/O and damaged files.
FileIO == {TRUE}

\* POST /register-node (lines 184-225)
register_node(name, ip, node_port, pa, pb, fault, io1, io2) ==
    LET is_a_alive == check_minio_health(pa)
        is_b_alive == check_minio_health(pb)
        status == NodeStatus(is_a_alive, is_b_alive)
        probes == <<Call("probe", <<HostPort(ip, "9001")>>, pa),
                    Call("probe", <<HostPort(ip, "9003")>>, pb)>>
        req == [NoOp EXCEPT !.op = "register", !.name = name, !.ip = ip,
                            !.port = node_port, !.a = is_a_alive, !.b = is_b_alive,
                            !.fault = fault]
    IN  IF ProbeAborts(is_a_alive, is_b_alive)
        THEN /\ last' = [req EXCEPT !.code = 503, !.fault = "none"]
             /\ calls' = probes
             /\ UNCHANGED <<nodes, clusters, edges, targets_minio, targets_node, now, writers, inflight>>
        ELSE IF fault # "none"
        THEN /\ last' = [req EXCEPT !.code = 500]
             /\ calls' = probes
             /\ UNCHANGED <<nodes, clusters, edges, targets_minio, targets_node, now, writers, inflight>>
        ELSE /\ nodes' = MergeNode(nodes, name, ip, status)
             /\ targets_minio' =
                    update_target_file(targets_minio, name, minio_target(name, ip), io1)
             /\ targets_node' =
                    update_target_file(targets_node, name,
                                       node_target(name, ip, node_port), io2)
             /\ last' = [req EXCEPT !.code = 200, !.status = status]
             /\ calls' = probes \o <<Call("ledger-write", <<>>, 0),
                                     Call("file", <<>>, 0), Call("file", <<>>, 0)>>
             /\ UNCHANGED <<clusters, edges, now, writers, inflight>>

Register ==
    \E name \in NodeNames, ip \in IPs, node_port \in Ports,
       pa \in ProbeOutcomes, pb \in ProbeOutcomes,
       fault \in LedgerFaults, io1 \in FileIO, io2 \in FileIO :
        register_node(name, ip, node_port, pa, pb, fault, io1, io2)

\* DELETE /nodes/{name} (lines 158-178).  A connection failure is the 503 of
\* get_db_session re-raised; a failed query is a 500; no match is a 404.
delete_node(name, fault, io1, io2) ==
    LET req == [NoOp EXCEPT !.op = "deregister", !.name = name, !.fault = fault]
        gone == NodesNamed(nodes, name)
    IN  IF fault # "none" \/ NoneDeleted(gone)
        THEN /\ last' = [req EXCEPT !.code = IF fault = "connect" THEN 503
                                            ELSE IF fault = "query" THEN 500
                                            ELSE 404]
             /\ calls' = IF fault = "none" THEN <<Call("ledger-write", <<>>, 0)>>
                         ELSE <<>>
             /\ UNCHANGED <<nodes, clusters, edges, targets_minio, targets_node, now, writers, inflight>>
        ELSE /\ nodes' = DeleteNodes(nodes, name)
             /\ edges' = DetachNodes(edges, NodeIds(gone))
             /\ targets_minio' = update_target_file(targets_minio, name, NoTarget, io1)
             /\ targets_node' = update_target_file(targets_node, name, NoTarget, io2)
             /\ last' = [req EXCEPT !.code = 200]
             /\ calls' = <<Call("ledger-write", <<>>, 0),
                           Call("file", <<>>, 0), Call("file", <<>>, 0)>>
             /\ UNCHANGED <<clusters, now, writers, inflight>>

Deregister ==
    \E name \in NodeNames, fault \in LedgerFaults, io1 \in FileIO, io2 \in FileIO :
        delete_node(name, fault, io1, io2)

\* GET /nodes (lines 96-120): every failure inside the try is a 500.
get_nodes(fault) ==
    /\ last' = [NoOp EXCEPT !.op = "get_nodes", !.fault = fault,
                            !.code = IF fault = "none" THEN 200 ELSE 500,
                            !.member_count = IF fault = "none"
                                             THEN Cardinality(nodes) ELSE 0]
    /\ calls' = IF fault = "connect" THEN <<>> ELSE <<Call("ledger-read", <<>>, 0)>>
    /\ UNCHANGED <<nodes, clusters, edges, targets_minio, targets_node, now, writers, inflight>>

ListNodes == \E fault \in LedgerFaults : get_nodes(fault)

\* ------------------------------------------------------------ alias registry
A == <<"a">>
B == <<"b">>

\* One line of `mc alias list --json`: json = FALSE is a line json.loads
\* rejects; an absent or empty key is <<>>.
Line(alias, URL, url) == [json |-> TRUE, alias |-> alias, URL |-> URL, url |-> url]
Garbage == [json |-> FALSE, alias |-> <<>>, URL |-> <<>>, url |-> <<>>]
Listing(rc, lines) == [rc |-> rc, lines |-> lines]

\* What the registry may answer: the command fails; both aliases resolve;
\* only a resolves (b has no URL, and a line is not JSON); both aliases point
\* at the same address, written without scheme and under the key "url".
Listings ==
    { Listing(1, <<>>),
      Listing(0, <<Line(A, HttpUrl(IP1, "9000"), <<>>), Line(B, HttpUrl(IP2, "9000"), <<>>)>>),
      Listing(0, <<Line(A, HttpUrl(IP1, "9000"), <<>>), Garbage, Line(B, <<>>, <<>>)>>),
      Listing(0, <<Line(A, <<>>, HostPort(IP2, "9000")), Line(B, <<>>, HostPort(IP2, "9000"))>>) }

\* url = data.get('URL', '') or data.get('url', '')
LineUrl(line) == IF line.URL # <<>> THEN line.URL ELSE line.url

Put(m, k, v) == [x \in DOMAIN m \cup {k} |-> IF x = k THEN v ELSE m[x]]

\* create_cluster lines 348-364: alias -> ip, for the listed aliases only
RECURSIVE ForwardMap(_, _, _)
ForwardMap(lines, alias_list, m) ==
    IF lines = <<>> THEN m
    ELSE LET l == Head(lines)
         IN  ForwardMap(Tail(lines), alias_list,
                 IF l.json /\ l.alias \in Range(alias_list) /\ LineUrl(l) # <<>>
                 THEN Put(m, l.alias, HostOf(LineUrl(l)))
                 ELSE m)

ResolveAliases(listing, alias_list) ==
    IF listing.rc = 0 THEN ForwardMap(listing.lines, alias_list, NoMap) ELSE NoMap

\* delete_cluster lines 429-444: ip -> alias, for every line with a url
RECURSIVE ReverseMap(_, _)
ReverseMap(lines, m) ==
    IF lines = <<>> THEN m
    ELSE LET l == Head(lines)
         IN  ReverseMap(Tail(lines),
                 IF l.json /\ LineUrl(l) # <<>>
                 THEN Put(m, HostOf(LineUrl(l)), l.alias)
                 ELSE m)

ResolveIPs(listing) ==
    IF listing.rc = 0 THEN ReverseMap(listing.lines, NoMap) ELSE NoMap

\* ------------------------------------------------------------ cluster ledger
\* MERGE (c:MinIOCluster {name: $name}) SET c.created_at = timestamp()
MergeCluster(cs, name, t) ==
    IF \E c \in cs : c.name = name
    THEN {IF c.name = name THEN [c EXCEPT !.created_at = t] ELSE c : c \in cs}
    ELSE cs \cup {[name |-> name, created_at |-> t]}

\* MERGE (n)-[:MEMBER_OF]->(c): one edge, created only when there is none
MergeEdge(es, e) == IF e \in DOMAIN es THEN es ELSE Put(es, e, 1)

RECURSIVE MergeEdges(_, _)
MergeEdges(es, todo) ==
    IF todo = {} THEN es
    ELSE LET e == CHOOSE x \in todo : TRUE
         IN  MergeEdges(MergeEdge(es, e), todo \ {e})

\* MATCH (c {name}) UNWIND $ips AS ip MATCH (n:MinIONode {ip: ip}) MERGE ...
LinkMembers(es, ns, cs, name, ips) ==
    IF \E c \in cs : c.name = name
    THEN MergeEdges(es, {<<n.id, name>> : n \in {x \in ns : x.ip \in ips}})
    ELSE es

\* MATCH (c:MinIOCluster {name: $name}) DETACH DELETE c
DeleteCluster(cs, name) == {c \in cs : c.name # name}
DetachCluster(es, name) == [e \in {x \in DOMAIN es : x[2] # name} |-> es[e]]

\* MATCH (c {name})<-[:MEMBER_OF]-(n) RETURN n.ip: one row per edge
MemberRows(es, name) ==
    UNION {{<<e[1], k>> : k \in 1..es[e]} : e \in {x \in DOMAIN es : x[2] = name}}

\* The rows come back in an order the query does not fix.
Orders(S) ==
    {f \in [1..Cardinality(S) -> S] : \A i, j \in DOMAIN f : f[i] = f[j] => i = j}

IpOfNode(ns, id) == (CHOOSE n \in ns : n.id = id).ip

\* ------------------------------------------------------------ cluster operations
ClusterNames == {"prod"}

\* The `aliases` form field: "", "a", " a , ," and "a, b"
AliasInputs ==
    { <<>>, A, <<SP>> \o A \o <<SP, COMMA, SP, COMMA>>, A \o <<COMMA, SP>> \o B }

\* returncode and stderr of `mc admin replicate add`
JoinOk == [rc |-> 0, stderr |-> <<>>]
JoinAlready == [rc |-> 1, stderr |-> <<"mc:", "Site", "ALREADY", "configured">>]
JoinRefused == [rc |-> 1, stderr |-> <<"mc:", "connection", "refused">>]
JoinOutcomes == {JoinOk, JoinAlready, JoinRefused}

\* str.lower() on the words of stderr
Lower(w) == IF w \in {"ALREADY", "Already"} THEN "already" ELSE w

\* Variant: the match without .lower()
MentionsAlready_CaseSensitive(stderr) == \E i \in DOMAIN stderr : stderr[i] = "already"

\* "already" in res.stderr.lower()
MentionsAlready(stderr) == \E i \in DOMAIN stderr : Lower(stderr[i]) = "already"

\* Variant: only an empty list is refused.
TooFewAliases_Empty(alias_list) == Len(alias_list) < 1

\* line 325
TooFewAliases(alias_list) == Len(alias_list) < 2

\* lines 340-343
JoinAborts(join) == join.rc # 0 /\ ~MentionsAlready(join.stderr)

\* Variant: the resets stop at the first one that fails.
ResetCalls_StopOnError(alias_list, rcs) ==
    LET n == IF \E i \in DOMAIN rcs : rcs[i] # 0
             THEN CHOOSE i \in DOMAIN rcs :
                     rcs[i] # 0 /\ \A j \in 1..(i - 1) : rcs[j] = 0
             ELSE Len(alias_list)
    IN  [i \in 1..n |-> Call("reset", <<alias_list[i]>>, rcs[i])]

\* lines 331-334: one reset per alias, the result is not looked at
ResetCalls(alias_list, rcs) ==
    [i \in DOMAIN alias_list |-> Call("reset", <<alias_list[i]>>, rcs[i])]

ClusterFaults == {"none", "connect", "link"}

\* POST /clusters (lines 311-396).  fault: get_db_session fails ("connect")
\* or the linking query fails after the MERGE of the cluster was committed
\* ("link"); either is caught at line 388 and only printed.
create_cluster(name, aliases, rcs, join, listing, fault) ==
    LET alias_list == ParseAliases(aliases)
        req == [NoOp EXCEPT !.op = "form", !.name = name, !.raw = aliases,
                            !.members = alias_list, !.fault = fault]
        resets == ResetCalls(alias_list, rcs)
        joined == resets \o <<Call("join", alias_list, join.rc)>>
        alias_map == ResolveAliases(listing, alias_list)
        found_ips == {alias_map[k] : k \in DOMAIN alias_map}
        listed == joined \o <<Call("list", <<>>, listing.rc)>>
        merged == MergeCluster(clusters, name, now)
    IN  /\ UNCHANGED <<nodes, targets_minio, targets_node, now, writers, inflight>>
        /\ IF TooFewAliases(alias_list)
           THEN /\ last' = [req EXCEPT !.code = 400]
                /\ calls' = <<>>
                /\ UNCHANGED <<clusters, edges>>
           ELSE IF JoinAborts(join)
           THEN /\ last' = [req EXCEPT !.code = 500, !.stderr = join.stderr]
                /\ calls' = joined
                /\ UNCHANGED <<clusters, edges>>
           ELSE /\ last' = [req EXCEPT !.code = 200, !.listing = listing,
                                       !.resolved = alias_map,
                                       !.stderr = join.stderr]
                /\ clusters' = IF fault = "connect" THEN clusters ELSE merged
                /\ edges' = IF fault = "none"
                            THEN LinkMembers(edges, nodes, merged, name, found_ips)
                            ELSE edges
                /\ calls' = listed \o
                     (IF fault = "connect" THEN <<>>
                      ELSE <<Call("ledger-write", <<>>, 0)>>) \o
                     (IF fault \in {"none", "link"} /\ found_ips # {}
                      THEN <<Call("ledger-write", <<>>, IF fault = "link" THEN 1 ELSE 0)>>
                      ELSE <<>>)

\* The resets' return codes, which the code never reads: all succeed, or the
\* first one fails.
ResetOutcomes(n) == {[i \in 1..n |-> 0], [i \in 1..n |-> IF i = 1 THEN 1 ELSE 0]}

\* The inputs of a step the code does not reach are not enumerated.
FormCluster ==
    \E name \in ClusterNames, aliases \in AliasInputs :
        LET n == Len(ParseAliases(aliases))
        IN  IF TooFewAliases(ParseAliases(aliases))
            THEN create_cluster(name, aliases, <<>>, JoinOk, Listing(1, <<>>), "none")
            ELSE \E rcs \in ResetOutcomes(n), join \in JoinOutcomes :
                    IF JoinAborts(join)
                    THEN create_cluster(name, aliases, rcs, join, Listing(1, <<>>), "none")
                    ELSE \E listing \in Listings :
                            LET some == ResolveAliases(listing, ParseAliases(aliases)) # NoMap
                            IN  \E fault \in ClusterFaults :
                                    /\ fault = "link" => some
                                    /\ create_cluster(name, aliases, rcs, join, listing, fault)

\* Variant: the existence check is skipped.
ClusterMissing_Never(cs, name) == FALSE

\* lines 412-414: check.single() is None
ClusterMissing(cs, name) == ~\E c \in cs : c.name = name

\* lines 449-458: one log record per member address
Log(kind, alias, ip, rc) == [kind |-> kind, alias |-> alias, ip |-> ip, rc |-> rc]

\* Variant: an address without alias is passed over without a log line.
ResetLogs_SilentSkip(cluster_ips, alias_map, rcs) ==
    SelectSeq([i \in DOMAIN cluster_ips |->
                  IF cluster_ips[i] \in DOMAIN alias_map
                  THEN Log("reset", alias_map[cluster_ips[i]], cluster_ips[i], rcs[i])
                  ELSE Log("warning", <<>>, cluster_ips[i], 0)],
              LAMBDA l : l.kind = "reset")

\* lines 449-458: one log line per member address
ResetLogs(cluster_ips, alias_map, rcs) ==
    [i \in DOMAIN cluster_ips |->
        LET ip == cluster_ips[i]
            alias == IF ip \in DOMAIN alias_map THEN alias_map[ip] ELSE <<>>
        IN  IF alias # <<>>
            THEN Log("reset", alias, ip, rcs[i])
            ELSE Log("warning", <<>>, ip, 0)]

LogCalls(logs) ==
    LET issued == SelectSeq(logs, LAMBDA l : l.kind = "reset")
    IN  [i \in DOMAIN issued |-> Call("reset", <<issued[i].alias>>, issued[i].rc)]

ReadFaults == {"none", "connect", "query"}
DeleteFaults == {"none", "connect", "query"}

\* DELETE /clusters/{name} (lines 398-472).  fault1 hits the reads of step 1
\* (503 from get_db_session, 500 from a query); fault2 hits the delete of
\* step 4, which line 464 catches and only prints.
delete_cluster(name, rows, rcs, listing, fault1, fault2) ==
    LET req == [NoOp EXCEPT !.op = "dismantle", !.name = name]
        cluster_ips == [i \in DOMAIN rows |-> IpOfNode(nodes, rows[i][1])]
        alias_map == ResolveIPs(listing)
        logs == ResetLogs(cluster_ips, alias_map, rcs)
    IN  /\ UNCHANGED <<nodes, targets_minio, targets_node, now, writers, inflight>>
        /\ IF fault1 # "none"
           THEN /\ last' = [req EXCEPT !.fault = fault1,
                                       !.code = IF fault1 = "connect" THEN 503 ELSE 500]
                /\ calls' = IF fault1 = "connect" THEN <<>>
                            ELSE <<Call("ledger-read", <<>>, 1)>>
                /\ UNCHANGED <<clusters, edges>>
           ELSE IF ClusterMissing(clusters, name)
           THEN /\ last' = [req EXCEPT !.code = 404]
                /\ calls' = <<Call("ledger-read", <<>>, 0)>>
                /\ UNCHANGED <<clusters, edges>>
           ELSE /\ last' = [req EXCEPT !.code = 200, !.fault = fault2,
                                       !.listing = listing,
                                       !.member_count = Len(cluster_ips),
                                       !.logs = logs]
                /\ calls' = <<Call("ledger-read", <<>>, 0), Call("ledger-read", <<>>, 0),
                              Call("list", <<>>, listing.rc)>> \o LogCalls(logs) \o
                            (IF fault2 = "connect" THEN <<>>
                             ELSE <<Call("ledger-write", <<>>,
                                         IF fault2 = "none" THEN 0 ELSE 1)>>)
                /\ clusters' = IF fault2 = "none" THEN DeleteCluster(clusters, name)
                               ELSE clusters
                /\ edges' = IF fault2 = "none" THEN DetachCluster(edges, name) ELSE edges

DismantleCluster ==
    \E name \in ClusterNames, listing \in Listings,
       fault1 \in ReadFaults, fault2 \in DeleteFaults :
        \E rows \in Orders(MemberRows(edges, name)) :
            \E rcs \in [DOMAIN rows -> {0, 1}] :
                /\ fault1 # "none" => fault2 = "none"
                /\ ClusterMissing(clusters, name) => fault2 = "none"
                /\ delete_cluster(name, rows, rcs, listing, fault1, fault2)

\* GET /clusters (lines 122-156): every failure inside the try is a 500.
get_clusters(fault) ==
    /\ last' = [NoOp EXCEPT !.op = "get_clusters", !.fault = fault,
                            !.code = IF fault = "none" THEN 200 ELSE 500,
                            !.member_count = IF fault = "none"
                                             THEN Cardinality(clusters) ELSE 0]
    /\ calls' = IF fault = "connect" THEN <<>> ELSE <<Call("ledger-read", <<>>, 0)>>
    /\ UNCHANGED <<nodes, clusters, edges, targets_minio, targets_node, now, writers, inflight>>

ListClusters == \E fault \in LedgerFaults : get_clusters(fault)

\* ------------------------------------------------------------ concurrent writers
\* update_target_file on targets_minio.json, statement by statement, as run by
\* two requests at once (Register or Deregister of n1 in one thread, of n2 in
\* the other).  Nothing in lines 26-51 takes a lock.
Jobs(w) ==
    LET name == IF w = 1 THEN "n1" ELSE "n2"
        ip == IF w = 1 THEN IP1 ELSE IP2
    IN  {[alias |-> name, new_target |-> minio_target(name, ip)],
         [alias |-> name, new_target |-> NoTarget]}

Quiet == UNCHANGED <<nodes, clusters, edges, targets_node, now, last, calls, inflight>>

\* the call of line 211 (register_node) or line 175 (delete_node)
WriterCall(w) ==
    /\ writers[w].pc = "idle"
    /\ \E job \in Jobs(w) :
          writers' = [writers EXCEPT ![w] = [pc |-> "called", alias |-> job.alias,
                                             new_target |-> job.new_target,
                                             data |-> <<>>]]
    /\ UNCHANGED targets_minio
    /\ Quiet

\* lines 32-40: data = json.load(f), [] for a file that does not parse
WriterLoad(w) ==
    /\ writers[w].pc = "called"
    /\ writers' = [writers EXCEPT ![w].pc = "loaded",
                                  ![w].data = ReadTargets(targets_minio)]
    /\ UNCHANGED targets_minio
    /\ Quiet

\* lines 43-49: the filter and the append on the local list, then
\* open(filepath, 'w'), which truncates the file: until the dump it is empty,
\* and an empty file is a JSONDecodeError for whoever loads it.
WriterOpen(w) ==
    LET kept == DropAlias(writers[w].data, writers[w].alias)
        out == IF writers[w].new_target # NoTarget
               THEN Append(kept, writers[w].new_target) ELSE kept
    IN  /\ writers[w].pc = "loaded"
        /\ writers' = [writers EXCEPT ![w].pc = "opened", ![w].data = out]
        /\ targets_minio' = MalformedFile
        /\ Quiet

\* line 50: json.dump(data, f) and the close of the file
WriterDump(w) ==
    /\ writers[w].pc = "opened"
    /\ writers' = [writers EXCEPT ![w].pc = "done"]
    /\ targets_minio' = ListFile(writers[w].data)
    /\ Quiet

\* ------------------------------------------------------------ external calls in flight
\* An external call and whether the code gives it a timeout.
Ext(cmd, bounded) == [cmd |-> cmd, bounded |-> bounded]

\* requests.get(url, timeout=2)
ProbeCall == Ext("probe", TRUE)
\* subprocess.run(cmd, shell=True, capture_output=True, text=True): the timeout
\* argument is not given, the call waits until the command exits
ResetCall == Ext("reset", FALSE)
JoinCall == Ext("join", FALSE)
ListCall == Ext("list", FALSE)

\* Most aliases of a formation and most members of a cluster that are followed.
MaxPlan == 3

\* The external calls of a request, in the order of the code.
Plan(op, n) ==
    IF op = "register" THEN <<ProbeCall, ProbeCall>>
    ELSE IF op = "form" THEN [i \in 1..n |-> ResetCall] \o <<JoinCall, ListCall>>
    ELSE <<ListCall>> \o [i \in 1..n |-> ResetCall]

Still == UNCHANGED <<nodes, clusters, edges, targets_minio, targets_node, now, last,
                     calls, writers>>

\* A request arrives: Register, FormCluster over n aliases, DismantleCluster
\* of a cluster whose n members have an alias.
Accept ==
    /\ inflight.op = "none"
    /\ \E op \in {"register", "form", "dismantle"}, n \in 0..MaxPlan :
          /\ op = "register" => n = 0
          /\ op = "form" => n >= 2
          /\ inflight' = [op |-> op, todo |-> Plan(op, n), waiting |-> FALSE,
                          results |-> <<>>]
    /\ Still

\* The request makes its next call and blocks in it.
IssueCall ==
    /\ inflight.op # "none" /\ ~inflight.waiting /\ inflight.todo # <<>>
    /\ inflight' = [inflight EXCEPT !.waiting = TRUE]
    /\ Still

\* What the probed node or the mc command may answer.
Answers(cmd) == IF cmd = "probe" THEN {200, 503} ELSE {0, 1}

\* The other side answers.  A failed join ends the formation (lines 340-343)
\* and a failed listing leaves the dismantling no alias to reset.
Answer ==
    /\ inflight.waiting
    /\ \E rc \in Answers(Head(inflight.todo).cmd) :
          LET cmd == Head(inflight.todo).cmd
              cut == \/ inflight.op = "form" /\ cmd = "join" /\ rc # 0
                     \/ inflight.op = "dismantle" /\ cmd = "list" /\ rc # 0
          IN  inflight' = [inflight EXCEPT
                              !.waiting = FALSE,
                              !.todo = IF cut THEN <<>> ELSE Tail(inflight.todo),
                              !.results = Append(inflight.results, rc)]
    /\ Still

\* The timeout of a call that has one expires: requests raises, the probe is
\* False (lines 79-83).
TimeOut ==
    /\ inflight.waiting /\ Head(inflight.todo).bounded
    /\ inflight' = [inflight EXCEPT !.waiting = FALSE,
                                    !.todo = Tail(inflight.todo),
                                    !.results = Append(inflight.results, -1)]
    /\ Still

\* No call is left: the handler returns its response.
Respond ==
    /\ inflight.op # "none" /\ ~inflight.waiting /\ inflight.todo = <<>>
    /\ inflight' = NoFlight
    /\ Still

\* The whole engine.  NextNodes and NextClusters below are sub-relations of
\* Next (Enroll is Register and Retire is Deregister on fewer inputs), so
\* every state they reach is a state of Spec.
Next ==
    \/ Tick
    \/ Register
    \/ Deregister
    \/ ListNodes
    \/ FormCluster
    \/ DismantleCluster
    \/ ListClusters
    \/ \E w \in Writers : WriterCall(w) \/ WriterLoad(w) \/ WriterOpen(w) \/ WriterDump(w)
    \/ Accept
    \/ IssueCall
    \/ Answer
    \/ TimeOut
    \/ Respond

Spec == Init /\ [][Next]_vars

\* The node operations alone, with every input of theirs.
NextNodes == Register \/ Deregister \/ ListNodes

SpecNodes == Init /\ [][NextNodes]_vars

\* The node operations on a fresh installation: neither target file exists.
InitEmpty ==
    /\ nodes = {}
    /\ clusters = {}
    /\ edges = NoEdges
    /\ targets_minio = MissingFile
    /\ targets_node = MissingFile
    /\ now = 0
    /\ last = NoOp
    /\ calls = <<>>
    /\ writers = NoWriters
    /\ inflight = NoFlight

SpecEmpty == InitEmpty /\ [][NextNodes]_vars

\* The cluster operations with every input of theirs, over a ledger that two
\* nodes join and leave: n1 at 10.0.0.1 and n2 at 10.0.0.2, registered with
\* both instances up and no ledger fault.
Enroll ==
    \E pair \in {<<"n1", IP1>>, <<"n2", IP2>>} :
        register_node(pair[1], pair[2], "9100", 200, 200, "none", TRUE, TRUE)

Retire == \E name \in NodeNames : delete_node(name, "none", TRUE, TRUE)

NextClusters ==
    \/ Tick
    \/ Enroll
    \/ Retire
    \/ FormCluster
    \/ DismantleCluster
    \/ ListClusters

SpecClusters == Init /\ [][NextClusters]_vars

\* ------------------------------------------------------------ target feed alone
\* update_target_file on one collection, over the stores it may find on disk
\* (absent, not JSON, JSON that is no list, lists with foreign, duplicated or
\* unreadable items) and with open() failing or not.
FeedStores ==
    { MissingFile, MalformedFile, NotListFile,
      ListFile(<<ForeignNoLabels, ForeignOther>>),
      ListFile(<<minio_target("n1", IP1), ForeignNoLabels, minio_target("n1", IP2)>>),
      ListFile(<<ForeignOther, ScalarItem>>),
      ListFile(<<BadLabels, minio_target("n2", IP2)>>) }

InitFeed ==
    /\ nodes = {}
    /\ clusters = {}
    /\ edges = NoEdges
    /\ targets_minio \in FeedStores
    /\ targets_node = MissingFile
    /\ now = 0
    /\ last = NoOp
    /\ calls = <<>>
    /\ writers = NoWriters
    /\ inflight = NoFlight

FeedUpsert ==
    \E alias \in NodeNames, ip \in IPs, io \in BOOLEAN :
        /\ targets_minio' =
               update_target_file(targets_minio, alias, minio_target(alias, ip), io)
        /\ last' = [NoOp EXCEPT !.op = "upsert", !.name = alias, !.ip = ip,
                                !.fault = IF io THEN "none" ELSE "io"]
        /\ UNCHANGED <<nodes, clusters, edges, targets_node, now, calls,
                       writers, inflight>>

FeedRemove ==
    \E alias \in NodeNames, io \in BOOLEAN :
        /\ targets_minio' = update_target_file(targets_minio, alias, NoTarget, io)
        /\ last' = [NoOp EXCEPT !.op = "remove", !.name = alias,
                                !.fault = IF io THEN "none" ELSE "io"]
        /\ UNCHANGED <<nodes, clusters, edges, targets_node, now, calls,
                       writers, inflight>>

NextFeed == FeedUpsert \/ FeedRemove

SpecFeed == InitFeed /\ [][NextFeed]_vars

\* ------------------------------------------------------------ two writers
\* Two requests update targets_minio.json at the same time, from a store that
\* earlier registrations left: no file, a foreign entry, or entries of n1 and
\* n2 at their former addresses next to the foreign one.
RaceStores ==
    { MissingFile,
      ListFile(<<ForeignOther>>),
      ListFile(<<ForeignOther, minio_target("n1", IP2), minio_target("n2", IP1)>>) }

InitRace ==
    /\ nodes = {}
    /\ clusters = {}
    /\ edges = NoEdges
    /\ targets_minio \in RaceStores
    /\ targets_node = MissingFile
    /\ now = 0
    /\ last = NoOp
    /\ calls = <<>>
    /\ writers = NoWriters
    /\ inflight = NoFlight

NextRace ==
    \E w \in Writers : WriterCall(w) \/ WriterLoad(w) \/ WriterOpen(w) \/ WriterDump(w)

SpecRace == InitRace /\ [][NextRace]_vars

\* ------------------------------------------------------------ one request
\* One request at a time, followed call by call.  The steps of the engine
\* itself are taken when they can be (a thread that can run does run, a timer
\* that was set fires); nothing makes a node or a command answer.
NextCalls == Accept \/ IssueCall \/ Answer \/ TimeOut \/ Respond

SpecCalls ==
    /\ Init /\ [][NextCalls]_vars
    /\ WF_vars(IssueCall) /\ WF_vars(TimeOut) /\ WF_vars(Respond)

\* ------------------------------------------------------------ claims
\* A step of operation op (Tick, which leaves `last` alone, is not one).
Did(op) == last'.op = op /\ now' = now

\* C1: the ledger holds at most one node record per ip, and Register on an ip
\* that already has a node rewrites that node's name and status in place.
OnePerIp == \A m, n \in nodes : m.ip = n.ip => m = n

C1_UpsertByIp ==
    /\ []OnePerIp
    /\ [][(Did("register") /\ last'.code = 200 /\ \E n \in nodes : n.ip = last'.ip) =>
            \E n \in nodes :
                /\ n.ip = last'.ip
                /\ nodes' = (nodes \ {n}) \cup
                             {[id |-> n.id, ip |-> n.ip, name |-> last'.name,
                               status |-> last'.status]}]_vars

\* The node at 10.0.0.1 was registered as n1 (its target entry is still in the
\* feed) and a later Register retargeted it to n2.
C1_Witness ==
    /\ last.op = "register" /\ last.code = 200
    /\ last.name = "n2" /\ last.ip = IP1
    /\ \E n \in nodes : n.ip = IP1 /\ n.name = "n2"
    /\ \E i \in DOMAIN targets_minio.data :
          targets_minio.data[i] = minio_target("n1", IP1)

\* C3: in a target collection, an upsert or a removal for alias X leaves every
\* entry whose alias label is not X as it was and in the same relative order,
\* foreign entries included.
OtherEntries(file, alias) ==
    LET data == file.data
        keep == {i \in DOMAIN data : ~(data[i].labels = "dict" /\ data[i].alias = alias)}
        Rank(i) == Cardinality({j \in keep : j <= i})
    IN  [k \in 1..Cardinality(keep) |-> data[CHOOSE i \in keep : Rank(i) = k]]

C3_OthersPreserved ==
    [][last'.op \in {"upsert", "remove"} =>
          OtherEntries(targets_minio', last'.name) =
          OtherEntries(targets_minio, last'.name)]_vars

\* An upsert for n2 was written into a list that keeps a foreign entry and
\* n1's entry in front of it.
C3_Witness ==
    /\ last.op = "upsert" /\ last.name = "n2" /\ last.fault = "none"
    /\ targets_minio.kind = "list"
    /\ \E i, j, k \in DOMAIN targets_minio.data :
          /\ i < j /\ j < k
          /\ targets_minio.data[i] = ForeignNoLabels
          /\ targets_minio.data[j] = minio_target("n1", IP1)
          /\ targets_minio.data[k].alias = "n2"

LedgerSame == nodes' = nodes /\ clusters' = clusters /\ edges' = edges

\* C2: FormCluster called twice with the same name and aliases (same registry,
\* ledger reachable both times) leaves the cluster's created_at as the first
\* call set it and leaves the same membership edges.
C2_FormIdempotent ==
    [][(/\ last.op = "form" /\ last.code = 200 /\ last.fault = "none"
        /\ Did("form") /\ last'.code = 200 /\ last'.fault = "none"
        /\ last'.name = last.name /\ last'.raw = last.raw
        /\ last'.listing = last.listing) =>
            clusters' = clusters /\ edges' = edges]_vars

\* C4: Deregister(name) with no ledger node of that name is answered with
\* NotFound (404; the ledger's own 503/500 when the ledger cannot be asked),
\* changes nothing in the ledger, and leaves the entries of every other alias
\* in both target collections as they were.
C4_DeregisterUnknown ==
    [][(Did("deregister") /\ NodesNamed(nodes, last'.name) = {}) =>
            /\ last'.code \in {404, 500, 503}
            /\ last'.fault = "none" => last'.code = 404
            /\ LedgerSame
            /\ OtherEntries(targets_minio', last'.name) =
               OtherEntries(targets_minio, last'.name)
            /\ OtherEntries(targets_node', last'.name) =
               OtherEntries(targets_node, last'.name)]_vars

\* Deregister of a name no node carries answered 404 while another node is in
\* the ledger and has its entries in both collections.
C4_Witness ==
    /\ last.op = "deregister" /\ last.code = 404
    /\ \E n \in nodes :
          /\ n.name # last.name
          /\ \E i \in DOMAIN targets_minio.data : targets_minio.data[i].alias = n.name
          /\ \E i \in DOMAIN targets_node.data : targets_node.data[i].alias = n.name

\* C5: FormCluster with fewer than 2 aliases, counting the comma-separated
\* items that are not blank, returns 400 and makes no external call (no reset,
\* no join, no registry listing, no ledger write).
NamedItems(raw) ==
    LET items == Split(raw, COMMA)
    IN  Cardinality({i \in DOMAIN items : \E k \in DOMAIN items[i] : items[i][k] # SP})

C5_TooFewAliases ==
    [][(Did("form") /\ NamedItems(last'.raw) < 2) =>
            last'.code = 400 /\ calls' = <<>> /\ LedgerSame]_vars

\* " a , ," was refused: one alias is left after trimming and dropping blanks.
C5_Witness ==
    /\ last.op = "form" /\ last.code = 400
    /\ Len(last.raw) > 2 /\ last.members = <<A>>
    /\ calls = <<>>

\* C6: DismantleCluster(name) with no cluster of that name in the ledger is
\* answered with NotFound (404; 503/500 when the ledger cannot be asked)
\* without listing the registry, without a reset, without a ledger change.
C6_DismantleUnknown ==
    [][(Did("dismantle") /\ ~\E c \in clusters : c.name = last'.name) =>
            /\ last'.code \in {404, 500, 503}
            /\ last'.fault = "none" => last'.code = 404
            /\ \A i \in DOMAIN calls' : calls'[i].cmd \notin {"list", "reset", "ledger-write"}
            /\ LedgerSame]_vars

\* An unknown cluster was answered 404 while the ledger holds nodes.
C6_Witness ==
    /\ last.op = "dismantle" /\ last.code = 404
    /\ nodes # {}
    /\ clusters = {}

\* C7: the status Register stores is active exactly when both probes answered
\* 200 and degraded otherwise, and it is stored on the record the address
\* already had.
C7_StatusFromProbes ==
    [][(Did("register") /\ last'.code = 200) =>
            LET want == IF calls'[1].rc = 200 /\ calls'[2].rc = 200
                        THEN "active" ELSE "degraded"
            IN  /\ last'.status = want
                /\ \E n \in nodes' : n.ip = last'.ip
                /\ \A n \in nodes' : n.ip = last'.ip =>
                      /\ n.status = want
                      /\ \A m \in nodes : m.ip = last'.ip => m.id = n.id]_vars

\* An address first registered as n1 was registered again with instance A
\* answering 503 and instance B not answering: its record is degraded.
C7_Witness ==
    /\ last.op = "register" /\ last.code = 200 /\ last.name = "n2"
    /\ calls[1].rc = 503 /\ calls[2].rc = -1
    /\ \E n \in nodes : n.ip = last.ip /\ n.status = "degraded" /\ n.name = "n2"
    /\ \E i \in DOMAIN targets_minio.data :
          targets_minio.data[i] = minio_target("n1", last.ip)

\* C8: whenever FormCluster returns success the cluster is in the ledger, the
\* edges it added are exactly those of the nodes whose ip is the resolved
\* address of a listed alias, and the returned map holds exactly the aliases
\* the registry resolved.
Resolvable(listing, alias) ==
    /\ listing.rc = 0
    /\ \E i \in DOMAIN listing.lines :
          /\ listing.lines[i].json
          /\ listing.lines[i].alias = alias
          /\ listing.lines[i].URL # <<>> \/ listing.lines[i].url # <<>>

C8_FormSuccess ==
    [][(Did("form") /\ last'.code = 200) =>
            LET name == last'.name
                map == last'.resolved
                ips == {map[k] : k \in DOMAIN map}
                members == {<<n.id, name>> : n \in {x \in nodes : x.ip \in ips}}
            IN  /\ \E c \in clusters' : c.name = name
                /\ DOMAIN map = {k \in Range(last'.members) : Resolvable(last'.listing, k)}
                /\ DOMAIN edges' = DOMAIN edges \cup members
                /\ \A e \in DOMAIN edges : edges'[e] = edges[e]
                /\ \A e \in members \ DOMAIN edges : edges'[e] = 1]_vars

\* C9: no operation returns a success response when one of its ledger reads or
\* writes could not be performed.
C9_LedgerFailureSurfaces ==
    last.fault \in {"connect", "query", "link"} => last.code >= 400

\* C10: in Register a failed ledger upsert is a 500 and leaves both target
\* collections (and the ledger) as they were; whatever the probes answered, a
\* Register whose upsert succeeds returns 200, has the node in the ledger and
\* leaves its entry as the one entry of that alias in both collections.
Synced(file, entry) ==
    /\ file.kind = "list" /\ file.data # <<>>
    /\ file.data[Len(file.data)] = entry
    /\ \A i \in DOMAIN file.data :
          (file.data[i].labels = "dict" /\ file.data[i].alias = entry.alias) =>
              i = Len(file.data)

C10_RegisterFailures ==
    [][Did("register") =>
            /\ last'.fault # "none" =>
                  /\ last'.code = 500
                  /\ LedgerSame
                  /\ targets_minio' = targets_minio /\ targets_node' = targets_node
            /\ last'.fault = "none" =>
                  /\ last'.code = 200
                  /\ \E n \in nodes' : n.ip = last'.ip /\ n.name = last'.name
                  /\ Synced(targets_minio',
                            TargetEntry(last'.name, <<last'.ip \o <<COLON, "9001">>,
                                                      last'.ip \o <<COLON, "9003">>>>))
                  /\ Synced(targets_node',
                            TargetEntry(last'.name, <<last'.ip \o <<COLON, last'.port>>>>))]_vars

\* Neither instance answered and the node is registered, degraded, with its
\* entry in both collections.
C10_Witness ==
    /\ last.op = "register" /\ last.code = 200
    /\ calls[1].rc = -1 /\ calls[2].rc = -1
    /\ \E n \in nodes : n.ip = last.ip /\ n.name = last.name /\ n.status = "degraded"
    /\ \E i \in DOMAIN targets_minio.data : targets_minio.data[i].alias = last.name
    /\ \E i \in DOMAIN targets_node.data : targets_node.data[i].alias = last.name

\* C11: in FormCluster a join that fails with a message outside the "already"
\* class is a 500 before the registry is listed and before any ledger write;
\* a join that fails with an "already" message goes on as a successful join
\* does: the registry is listed, the response is success and, the ledger being
\* reachable, the cluster and the resolved members' edges are written.
JoinCalls(cs) == {i \in DOMAIN cs : cs[i].cmd = "join"}
SaysAlready(stderr) ==
    \E i \in DOMAIN stderr : stderr[i] \in {"already", "Already", "ALREADY"}

C11_JoinFailure ==
    [][(Did("form") /\ \E i \in JoinCalls(calls') : calls'[i].rc # 0) =>
          IF SaysAlready(last'.stderr)
          THEN /\ last'.code = 200
               /\ \E i \in DOMAIN calls' : calls'[i].cmd = "list"
               /\ last'.fault = "none" =>
                     /\ \E c \in clusters' : c.name = last'.name
                     /\ \A n \in nodes :
                           (\E k \in DOMAIN last'.resolved : last'.resolved[k] = n.ip) =>
                               <<n.id, last'.name>> \in DOMAIN edges'
          ELSE /\ last'.code = 500
               /\ \A i \in DOMAIN calls' : calls'[i].cmd \in {"reset", "join"}
               /\ LedgerSame]_vars

\* A join answered "Site ALREADY configured" and the cluster was formed with
\* a member edge.
C11_Witness ==
    /\ last.op = "form" /\ last.code = 200
    /\ \E i \in JoinCalls(calls) : calls[i].rc # 0
    /\ SaysAlready(last.stderr)
    /\ \E c \in clusters : c.name = last.name
    /\ DOMAIN edges # {}

\* C12: whenever DismantleCluster answers "deleted", the cluster is absent
\* from the ledger and no edge points into it, whatever the resets returned,
\* and the nodes are as they were.
C12_DismantleDeletes ==
    [][(Did("dismantle") /\ last'.code = 200) =>
          /\ ~\E c \in clusters' : c.name = last'.name
          /\ ~\E e \in DOMAIN edges' : e[2] = last'.name
          /\ nodes' = nodes]_vars

\* C13: no membership edge refers to a node that is not in the ledger, and
\* after a successful Deregister(name) no ledger node carries the name and
\* neither target collection holds an entry whose alias label is the name.
Labelled(file, alias) ==
    {i \in DOMAIN file.data : file.data[i].labels = "dict" /\ file.data[i].alias = alias}

MemberIps(name) == {n.ip : n \in {m \in nodes : <<m.id, name>> \in DOMAIN edges}}

LinesAt(listing, ip) ==
    {i \in DOMAIN listing.lines :
        /\ listing.lines[i].json
        /\ LineUrl(listing.lines[i]) # <<>>
        /\ HostOf(LineUrl(listing.lines[i])) = ip}

AliasAt(listing, ip) ==
    IF listing.rc # 0 \/ LinesAt(listing, ip) = {} THEN <<>>
    ELSE listing.lines[CHOOSE i \in LinesAt(listing, ip) :
                          \A j \in LinesAt(listing, ip) : j <= i].alias

Resets(cs) == SelectSeq(cs, LAMBDA c : c.cmd = "reset")

C14_DismantleLogs ==
    [][(Did("dismantle") /\ last'.code \notin {404, 500, 503}) =>
          LET logs == last'.logs
              issued == SelectSeq(logs, LAMBDA l : l.kind = "reset")
          IN  /\ last'.code = 200
              /\ Len(logs) = Cardinality(MemberIps(last'.name))
              /\ {logs[i].ip : i \in DOMAIN logs} = MemberIps(last'.name)
              /\ \A i \in DOMAIN logs :
                    IF AliasAt(last'.listing, logs[i].ip) # <<>>
                    THEN /\ logs[i].kind = "reset"
                         /\ logs[i].alias = AliasAt(last'.listing, logs[i].ip)
                    ELSE logs[i].kind = "warning"
              /\ Len(Resets(calls')) = Len(issued)
              /\ \A i \in DOMAIN issued :
                    /\ Resets(calls')[i].arg = <<issued[i].alias>>
                    /\ Resets(calls')[i].rc = issued[i].rc
                    /\ \E k \in DOMAIN last'.listing.lines :
                          /\ last'.listing.lines[k].alias = issued[i].alias
                          /\ HostOf(LineUrl(last'.listing.lines[k])) \in MemberIps(last'.name)]_vars

\* A dismantling of two members: the reset of the one listed alias failed and
\* was logged, the other address got a warning.
C14_Witness ==
    /\ last.op = "dismantle" /\ last.code = 200 /\ Len(last.logs) = 2
    /\ \E i, j \in DOMAIN last.logs :
          /\ last.logs[i].kind = "reset" /\ last.logs[i].rc = 1
          /\ last.logs[j].kind = "warning"
    /\ Len(Resets(calls)) = 1

\* C15: a FormCluster that gets past validation calls, in this order: one
\* reset per alias of the list, in list order and whatever the resets return;
\* then the join, once, over the whole list; the registry listing and the
\* ledger writes only after the join.
C15_ResetThenJoin ==
    (last.op = "form" /\ last.code # 400) =>
        LET n == Len(last.members)
        IN  /\ Len(calls) > n
            /\ \A i \in 1..n :
                  calls[i].cmd = "reset" /\ calls[i].arg = <<last.members[i]>>
            /\ calls[n + 1].cmd = "join" /\ calls[n + 1].arg = last.members
            /\ \A i \in (n + 2)..Len(calls) : calls[i].cmd \in {"list", "ledger-write"}
            /\ last.code = 200 => calls[n + 2].cmd = "list"

\* The first reset failed; the join was issued all the same and the cluster
\* was written.
C15_Witness ==
    /\ last.op = "form" /\ last.code = 200 /\ Len(last.members) = 2
    /\ calls[1].cmd = "reset" /\ calls[1].rc = 1
    /\ calls[3].cmd = "join" /\ calls[3].rc = 0
    /\ \E i \in DOMAIN calls : calls[i].cmd = "ledger-write"

\* C16: each target collection holds at most one entry per alias label, and
\* after a successful Register(name, ip, port) each collection holds exactly
\* one entry labelled name: [ip:9001, ip:9003] in the MinIO collection and
\* [ip:port] in the node collection.
OnePerAlias(file) ==
    \A i, j \in DOMAIN file.data :
        (/\ file.data[i].labels = "dict" /\ file.data[j].labels = "dict"
         /\ file.data[i].alias = file.data[j].alias) => i = j

C19_NamesUnique ==
    \A n, m \in nodes : n.name = m.name => n = m

\* C20: the feed is a projection of the ledger: starting from empty stores,
\* the alias labels of each target collection are exactly the names of the
\* ledger nodes, and every entry's address is the ip of a ledger node of that
\* name.
Names == {n.name : n \in nodes}
Labels(file) ==
    {file.data[i].alias : i \in {k \in DOMAIN file.data : file.data[k].labels = "dict"}}
AtNodeOfName(t) ==
    \E n \in nodes :
        /\ n.name = t.alias
        /\ \A k \in DOMAIN t.targets : HostOf(t.targets[k]) = n.ip

C20_FeedProjectsLedger ==
    /\ Labels(targets_minio) = Names
    /\ Labels(targets_node) = Names
    /\ \A i \in DOMAIN targets_minio.data : AtNodeOfName(targets_minio.data[i])
    /\ \A i \in DOMAIN targets_node.data : AtNodeOfName(targets_node.data[i])

\* C17: writes to a target collection are serialized: when two concurrent
\* updates for two distinct aliases have both completed, the collection is a
\* readable list that reflects both: the entry of each upsert is in it and no
\* entry is left for an alias that was removed.
Reflected(w) ==
    IF writers[w].new_target # NoTarget
    THEN \E i \in DOMAIN targets_minio.data :
            targets_minio.data[i] = writers[w].new_target
    ELSE Labelled(targets_minio, writers[w].alias) = {}

C17_WritesSerialized ==
    (\A w \in Writers : writers[w].pc = "done") =>
        /\ targets_minio.kind = "list"
        /\ \A w \in Writers : Reflected(w)

\* C18: every operation runs to completion: a request that was accepted
\* returns its response, whether or not the node or command it calls answers.
C18_RunsToCompletion == (inflight.op # "none") ~> (inflight.op = "none")

====
